---- MODULE Spec2Model ----
(***************************************************************************)
(* Flaredream dashboard worker: the KV cache addressing and the refresh    *)
(* pipeline of src/src/index.ts, and the read/refresh handlers of the      *)
(* earlier iteration src/unnamed/part_001.                                 *)
(*                                                                         *)
(* A handler invocation occupies a slot of h.  Every await of the source   *)
(* is a step boundary: the code between two awaits runs atomically.        *)
(***************************************************************************)
EXTENDS Integers, Sequences, FiniteSets, TLC

VARIABLES
    kv,        \* FLAREDREAM_KV: key string -> entry (partial map)
    h,         \* refresh invocations in flight or just finished, per slot
    lastRead,  \* the dashboard read being answered: its request and response
    nextRid,   \* identity given to the next refresh invocation
    now,       \* latest value returned by Date.now()
    puts,      \* history: <<username, tier, format>> -> latest entry put for it
    files      \* the configuration files of svc: file name -> decoded content

vars == <<kv, h, lastRead, nextRid, now, puts, files>>

----------------------------------------------------------------------------
(* Bounds *)

MaxProcs == 1      \* refresh invocations in flight at the same time
MaxRid == 2        \* refresh invocations per behaviour
MaxClock == 2      \* distinct values Date.now() returns in one behaviour
MaxPair == 2       \* refresh invocations in flight in SpecPair
MaxLines == 3      \* lines of a wrangler.toml in SpecConfig

Procs == 1..MaxProcs

----------------------------------------------------------------------------
(* The environment: viewers, upstream repository lists, repository files *)

None == "none"
Absent == [absent |-> TRUE]
NoRead == [status |-> 0]

Logins == {"al", "bo"}
Usernames == {"al", "bo"}
Tiers == {"public", "private"}
Formats == {"html", "md"}

TokenOf(login) == "tok_" \o login

\* what getCurrentUser / getAccessToken return for one request: nobody,
\* a session without access token, a session with its access token
Viewers ==
    {[login |-> None, token |-> None],
     [login |-> "al", token |-> None],
     [login |-> "al", token |-> TokenOf("al")],
     [login |-> "bo", token |-> TokenOf("bo")]}

\* url.pathname of a dashboard read, as the sequence of its pieces: "/",
\* runs of characters without "/" and ".", and the extensions
ReadPaths ==
    {<<"/", "al">>, <<"/", "bo">>, <<"/", "al", ".md">>, <<"/", "al", ".html">>}

\* Accept header of a dashboard read
Accepts == {"text/html", "text/markdown"}

ReadRequest(currentUser, path, accept) ==
    [currentUser |-> currentUser, path |-> path, accept |-> accept]

\* the requests of dashboard reads: both formats of al's dashboard for
\* nobody and for al, bo's dashboard, and the paths with an extension under
\* the Accept header of the other format
ReadRequests ==
    {ReadRequest(None, <<"/", "al">>, "text/html"),
     ReadRequest(None, <<"/", "al">>, "text/markdown"),
     ReadRequest("al", <<"/", "al">>, "text/html"),
     ReadRequest("al", <<"/", "al">>, "text/markdown"),
     ReadRequest("al", <<"/", "bo">>, "text/html"),
     ReadRequest(None, <<"/", "bo">>, "text/markdown"),
     ReadRequest(None, <<"/", "al", ".md">>, "text/html"),
     ReadRequest("al", <<"/", "al", ".html">>, "text/markdown")}

RepoSvc == [name |-> "svc", owner |-> "al", private |-> FALSE]
RepoVault == [name |-> "vault", owner |-> "al", private |-> TRUE]

\* al owns a public and a private repository, bo owns none
RepoList(username) ==
    IF username = "al" THEN <<RepoSvc, RepoVault>> ELSE <<>>

\* cache.forgithub.com/repos/{owner}: all repositories with the owner's key,
\* the public ones otherwise
Upstream(username, auth) ==
    IF auth = TokenOf(username) THEN RepoList(username)
    ELSE SelectSeq(RepoList(username), LAMBDA r : ~r.private)

\* `{}`: a configuration without any field
EmptyConfig == [name |-> None, main |-> None, routes |-> << >>, route |-> << >>]

\* a line `key = "value"` of a toml file, as its pieces
TomlAssign(key, value) == <<key, " ", "=", " ", "\"">> \o value \o <<"\"">>

\* a toml file of the given lines
TomlFile(lines) == [wellFormed |-> TRUE, lines |-> lines, json |-> EmptyConfig]

\* a json file that JSON.parse turns into the given object
JsonFile(object) == [wellFormed |-> TRUE, lines |-> << >>, json |-> object]

\* a file JSON.parse throws on, as a wrangler.jsonc with comments
MalformedFile == [wellFormed |-> FALSE, lines |-> << >>, json |-> EmptyConfig]

\* the configuration files of svc
\*   wrangler.toml    name = "svc"  /  pattern = "svc.example.com/*"
\*   wrangler.json    { "name": "svc", "routes": [{ "pattern": "svc.example.com" }] }
\*   wrangler.jsonc   // comment  { "name": "svc" }
SvcFiles ==
    [fileName \in {"wrangler.toml", "wrangler.json", "wrangler.jsonc"} |->
        IF fileName = "wrangler.toml"
        THEN TomlFile(<<TomlAssign("name", <<"svc">>),
                        TomlAssign("pattern", <<"svc.example.com", "/", "*">>)>>)
        ELSE IF fileName = "wrangler.json"
        THEN JsonFile([name |-> "svc", main |-> None,
                       routes |-> <<[pattern |-> <<"svc.example.com">>]>>,
                       route |-> << >>])
        ELSE MalformedFile]

\* candidate configuration files that exist in each repository
FilesOf(repo) == IF repo.name = "svc" THEN DOMAIN files ELSE {}

\* atob(fileData.content) of a file that exists
FileContent(repo, fileName) == files[fileName]

\* api.github.com/repos/{owner}/{repo}/contents/{file} can answer 200
FileReadable(repo, fileName, auth) ==
    /\ fileName \in FilesOf(repo)
    /\ ~repo.private \/ auth = TokenOf(repo.owner)

----------------------------------------------------------------------------
(* The cache store *)

KvGet(key) == IF key \in DOMAIN kv THEN kv[key] ELSE Absent

KvPut(store, key, entry) ==
    [k \in (DOMAIN store) \cup {key} |-> IF k = key THEN entry ELSE store[k]]

Contents(store) == [k \in DOMAIN store |-> store[k].content]

----------------------------------------------------------------------------
(* src/src/index.ts *)

\* the string a sequence of pieces spells
RECURSIVE Join(_)
Join(pieces) ==
    IF pieces = << >> THEN "" ELSE Head(pieces) \o Join(Tail(pieces))

Extensions == {".html", ".md"}

\* `pathMatch[2]?.slice(1)`
SliceDot(extension) ==
    IF extension = ".md" THEN "md"
    ELSE IF extension = ".html" THEN "html" ELSE None

\* the lengths k for which /^\/([^\/]+)(\.html|\.md)?$/ matches path with
\* k pieces in its first group: a leading "/", k pieces without "/", then
\* nothing or one extension, then the end
UserMatchSplits(path) ==
    {k \in 1..(Len(path) - 1) :
        /\ path[1] = "/"
        /\ \A i \in 2..(k + 1) : path[i] # "/"
        /\ \/ k + 1 = Len(path)
           \/ k + 2 = Len(path) /\ path[k + 2] \in Extensions}

UserMatchOf(path, k) ==
    [matched |-> TRUE,
     username |-> Join(SubSeq(path, 2, k + 1)),
     format |-> IF k + 1 = Len(path) THEN None ELSE SliceDot(path[k + 2])]

\* path.match(/^\/([^\/]+)(\.html|\.md)?$/): `+` is greedy, the first group
\* takes as many characters as the rest of the pattern allows
UserMatch(path) ==
    LET splits == UserMatchSplits(path)
    IN  IF splits = {}
        THEN [matched |-> FALSE, username |-> None, format |-> None]
        ELSE UserMatchOf(path, CHOOSE k \in splits : \A j \in splits : j <= k)

\* variant: any logged-in viewer counts as the owner
IsOwnerAnyLogin(currentUser, username) == currentUser # None

\* `currentUser?.login === username`
IsOwner(currentUser, username) == currentUser = username

\* variant: the key of the read does not embed the tier
ReadCacheKeyNoTier(username, isOwner, responseFormat) ==
    "dashboard:" \o username \o ":public:" \o responseFormat

\* cacheKey of handleUserDashboard
ReadCacheKey(username, isOwner, responseFormat) ==
    "dashboard:" \o username \o ":"
        \o (IF isOwner THEN "private" ELSE "public") \o ":" \o responseFormat

\* variant: the public pair of every username goes under al's keys
PublicCacheKeyOfAl(username) == "dashboard:al:public"

PublicCacheKey(username) == "dashboard:" \o username \o ":public"
PrivateCacheKey(username) == "dashboard:" \o username \o ":private"

ResponseFormat(format, accept) ==
    IF format # None THEN format
    ELSE IF accept = "text/markdown" THEN "md" ELSE "html"

\* variant: the json file is probed first
WranglerFilesJsonFirst == <<"wrangler.json", "wrangler.toml", "wrangler.jsonc">>

WranglerFiles == <<"wrangler.toml", "wrangler.json", "wrangler.jsonc">>

\* Authorization header of the aggregation request
ApiAuth(isOwner, accessToken) ==
    IF isOwner /\ accessToken # None THEN accessToken ELSE None

\* Authorization header of a config probe
ProbeAuth(isOwner, accessToken) == accessToken

Min(S) == CHOOSE x \in S : \A y \in S : x <= y

\* String.prototype.trim, startsWith, includes, split('=')[1] and
\* replace(/['"]/g, '') on a line given as its pieces
RECURSIVE TrimStart(_)
TrimStart(line) ==
    IF line # << >> /\ Head(line) = " " THEN TrimStart(Tail(line)) ELSE line

RECURSIVE TrimEnd(_)
TrimEnd(line) ==
    IF line # << >> /\ line[Len(line)] = " "
    THEN TrimEnd(SubSeq(line, 1, Len(line) - 1)) ELSE line

Trim(line) == TrimEnd(TrimStart(line))

StartsWith(line, prefix) ==
    Len(line) >= Len(prefix) /\ SubSeq(line, 1, Len(prefix)) = prefix

Includes(line, part) ==
    \E i \in 1..(Len(line) - Len(part) + 1) :
        SubSeq(line, i, i + Len(part) - 1) = part

SplitEq1(line) ==
    LET equals == {i \in 1..Len(line) : line[i] = "="}
        first == Min(equals)
        later == {i \in equals : i > first}
    IN  SubSeq(line, first + 1,
               IF later = {} THEN Len(line) ELSE Min(later) - 1)

StripQuotes(line) == SelectSeq(line, LAMBDA piece : piece \notin {"\"", "'"})

\* `trimmed.split('=')[1].trim().replace(/['"]/g, '')`
TomlValue(trimmed) == StripQuotes(Trim(SplitEq1(trimmed)))

\* the loop over the lines of the toml branch
RECURSIVE ParseTomlLines(_, _)
ParseTomlLines(lines, config) ==
    IF lines = << >> THEN config
    ELSE LET trimmed == Trim(Head(lines))
             named == IF StartsWith(trimmed, <<"name", " ", "=">>)
                      THEN [config EXCEPT !.name = Join(TomlValue(trimmed))]
                      ELSE config
             mained == IF StartsWith(trimmed, <<"main", " ", "=">>)
                       THEN [named EXCEPT !.main = Join(TomlValue(trimmed))]
                       ELSE named
             routed == IF Includes(trimmed, <<"pattern", " ", "=">>)
                       THEN [mained EXCEPT !.routes =
                                Append(@, [pattern |-> TomlValue(trimmed)])]
                       ELSE mained
         IN  ParseTomlLines(Tail(lines), routed)

\* parseWranglerConfig: the toml branch reads the file line by line, the
\* other files are JSON.parse'd; an error gives `{}`
ParseWranglerConfig(content, fileName) ==
    IF fileName = "wrangler.toml"
    THEN ParseTomlLines(content.lines, EmptyConfig)
    ELSE IF content.wellFormed THEN content.json ELSE EmptyConfig

\* `pattern.includes('*')`
IncludesStar(pattern) == \E i \in 1..Len(pattern) : pattern[i] = "*"

\* variant: the singular route object is not looked at
ExtractDomainsRoutesOnly(config) ==
    LET kept == SelectSeq(config.routes,
                          LAMBDA route : ~IncludesStar(route.pattern))
    IN  [i \in 1..Len(kept) |-> Join(kept[i].pattern)]

\* extractDomains: the patterns of routes, then of route, without a `*`
ExtractDomains(config) ==
    LET kept == SelectSeq(config.routes \o config.route,
                          LAMBDA route : ~IncludesStar(route.pattern))
    IN  [i \in 1..Len(kept) |-> Join(kept[i].pattern)]

\* generateRepoCard: the links of the domains block
DomainLinks(repo) ==
    [i \in 1..Len(repo.domains) |-> "https://" \o repo.domains[i]]

\* `repo.html_url` of the upstream record
HtmlUrl(repo) == "https://github.com/" \o repo.owner \o "/" \o repo.name

\* the four links every repository gets, in both formats
BaseLinks(repo) ==
    <<HtmlUrl(repo),
      "https://github.dev/" \o repo.owner \o "/" \o repo.name,
      "https://lmpify.com/https://uithub.com/" \o repo.owner \o "/"
          \o repo.name,
      "https://uithub.com/" \o repo.owner \o "/" \o repo.name>>

DeployLink(repo) ==
    "https://dash.cloudflare.com/?to=/:account/workers-and-pages/create/"
        \o "deploy-to-workers&repository=" \o HtmlUrl(repo)

ConfigureLink(repo) ==
    "https://dash.cloudflare.com/?to=/:account/workers-and-pages/create/"
        \o "workers/provider/github/" \o repo.owner \o "/" \o repo.name
        \o "/configure"

DeploymentsLink(repo) ==
    "https://dash.cloudflare.com/?to=/:account/workers/services/view/"
        \o repo.name \o "/production/deployments"

\* generateRepoCard: the hrefs of a card, the domains block then repoActions
CardLinks(repo) ==
    DomainLinks(repo) \o BaseLinks(repo)
        \o (IF repo.isWorker
            THEN <<DeployLink(repo), ConfigureLink(repo),
                   DeploymentsLink(repo)>>
            ELSE << >>)

\* generateRepoMarkdown: the link targets of an entry, the Domains line then
\* the Links line
MarkdownLinks(repo) ==
    DomainLinks(repo) \o BaseLinks(repo)
        \o (IF repo.isWorker
            THEN <<DeployLink(repo), ConfigureLink(repo)>>
            ELSE << >>)

\* a free slot; the fields of an invocation:
\*   pending  cache puts issued and not yet settled
\*   status   status of the response, 0 while there is none
\*   before   contents of the cache when the invocation started
\*   prior    the entries of the cache when the invocation started
\*   wrote    keys this invocation has written
\*   sent     the outbound requests it has made
\*   upstream what the aggregation endpoint answered
\*   tasks    part_001: the generateAndCacheDashboard calls, per format
Idle ==
    [pc |-> "idle", kind |-> None, rid |-> 0, username |-> None,
     currentUser |-> None, accessToken |-> None, isOwner |-> FALSE,
     repos |-> <<>>, html |-> Absent, md |-> Absent, pending |-> {},
     status |-> 0, before |-> << >>, prior |-> << >>, wrote |-> {},
     sent |-> {},
     upstream |-> None, tasks |-> << >>]

Init ==
    /\ kv = << >>
    /\ h = [p \in Procs |-> Idle]
    /\ lastRead = NoRead
    /\ nextRid = 1
    /\ now = 0
    /\ puts = << >>
    /\ files = SvcFiles

Free(p) == h[p].pc \in {"idle", "done"} /\ h[p].pending = {}

\* a new invocation takes the first free slot
FirstFree(p) == Free(p) /\ \A q \in DOMAIN h : q < p => ~Free(q)

\* variant: a miss stores a placeholder under the key it looked up
HandleUserDashboardGenerates(request, username, format) ==
    LET currentUser == request.currentUser
        isOwner == IsOwner(currentUser, username)
        responseFormat == ResponseFormat(format, request.accept)
        cacheKey == ReadCacheKey(username, isOwner, responseFormat)
        content == KvGet(cacheKey)
        placeholder == [content |-> [format |-> responseFormat,
                                     username |-> username,
                                     repositories |-> <<>>,
                                     headerAction |-> "n/a", cache |-> 0],
                        ttl |-> 0,
                        tag |-> [rid |-> 0, username |-> username,
                                 tier |-> IF isOwner THEN "private"
                                          ELSE "public",
                                 format |-> responseFormat,
                                 by |-> [login |-> currentUser,
                                         token |-> None]]]
    IN  /\ lastRead = NoRead
        /\ lastRead' =
             [path |-> request.path,
              username |-> username, currentUser |-> currentUser,
              isOwner |-> isOwner, format |-> responseFormat,
              key |-> cacheKey,
              hit |-> content # Absent,
              body |-> IF content # Absent THEN content ELSE placeholder,
              contentType |-> IF responseFormat = "md"
                              THEN "text/markdown" ELSE "text/html",
              status |-> 200]
        /\ kv' = IF content # Absent THEN kv
                 ELSE KvPut(kv, cacheKey, placeholder)
        /\ UNCHANGED <<h, nextRid, now, puts, files>>

\* variant: a miss is answered 404 without a way on
MissResponseNotFound(username) ==
    [status |-> 404, contentType |-> "text/plain", body |-> [redirect |-> None]]

\* the Response of a miss: a 200 html page whose meta refresh and link go to
\* /{username}/refresh
MissResponse(username) ==
    [status |-> 200, contentType |-> "text/html",
     body |-> [redirect |-> "/" \o username \o "/refresh"]]

\* handleUserDashboard: one KV get, then the response
HandleUserDashboard(request, username, format) ==
    LET currentUser == request.currentUser
        isOwner == IsOwner(currentUser, username)
        responseFormat == ResponseFormat(format, request.accept)
        cacheKey == ReadCacheKey(username, isOwner, responseFormat)
        content == KvGet(cacheKey)
    IN  /\ lastRead = NoRead
        /\ lastRead' =
             [path |-> request.path,
              username |-> username, currentUser |-> currentUser,
              isOwner |-> isOwner, format |-> responseFormat,
              key |-> cacheKey,
              hit |-> content # Absent,
              body |-> IF content # Absent THEN content
                       ELSE MissResponse(username).body,
              contentType |-> IF content = Absent
                              THEN MissResponse(username).contentType
                              ELSE IF responseFormat = "md"
                              THEN "text/markdown" ELSE "text/html",
              status |-> IF content # Absent THEN 200
                         ELSE MissResponse(username).status]
        /\ UNCHANGED <<kv, h, nextRid, now, puts, files>>

\* fetch: a path that matches the dashboard route goes to handleUserDashboard
FetchDashboard(request) ==
    LET pathMatch == UserMatch(request.path)
    IN  /\ pathMatch.matched
        /\ HandleUserDashboard(request, pathMatch.username, pathMatch.format)

\* handleUserDashboard returns its Response; no other handler code runs
\* between the resolution of the get and this return
ReturnDashboard ==
    /\ lastRead # NoRead
    /\ lastRead' = NoRead
    /\ UNCHANGED <<kv, h, nextRid, now, puts, files>>

\* handleRefresh up to `await fetch(apiUrl, { headers })`
StartRefresh(p, viewer, username) ==
    LET isOwner == IsOwner(viewer.login, username)
    IN  /\ lastRead = NoRead
        /\ FirstFree(p)
        /\ nextRid <= MaxRid
        /\ h' = [h EXCEPT ![p] =
                    [Idle EXCEPT !.pc = "fetching", !.kind = "refresh",
                        !.rid = nextRid, !.username = username,
                        !.currentUser = viewer.login,
                        !.accessToken = viewer.token,
                        !.isOwner = isOwner,
                        !.before = Contents(kv), !.prior = kv,
                        !.sent = {[kind |-> "repos", target |-> username,
                                   file |-> None, n |-> 1,
                                   auth |-> ApiAuth(isOwner, viewer.token)]}]]
        /\ nextRid' = nextRid + 1
        /\ UNCHANGED <<kv, lastRead, now, puts, files>>

ProbeRequest(hp, repo, cand) ==
    [kind |-> "contents", target |-> repo.name,
     file |-> WranglerFiles[cand], n |-> 1,
     auth |-> ProbeAuth(hp.isOwner, hp.accessToken)]

\* the aggregation endpoint answered 2xx with the list: every
\* processRepository call runs up to its first `await fetch(fileUrl)`
FetchOk(p) ==
    LET hp == h[p]
        repositories ==
            Upstream(hp.username, ApiAuth(hp.isOwner, hp.accessToken))
        work == [i \in 1..Len(repositories) |->
                    [name |-> repositories[i].name,
                     owner |-> repositories[i].owner,
                     private |-> repositories[i].private,
                     isWorker |-> FALSE, file |-> None,
                     wranglerConfig |-> EmptyConfig, domains |-> << >>,
                     cand |-> 1]]
    IN  /\ lastRead = NoRead
        /\ hp.pc = "fetching"
        /\ hp.kind = "refresh"
        /\ h' = [h EXCEPT ![p].pc = "probing", ![p].repos = work,
                          ![p].upstream = "ok",
                          ![p].sent = @ \cup
                              {ProbeRequest(hp, repositories[i], 1) :
                                  i \in 1..Len(repositories)}]
        /\ UNCHANGED <<kv, lastRead, nextRid, now, puts, files>>

\* variant: a failed aggregation request is sent again
FetchFailRetries(p) ==
    /\ lastRead = NoRead
    /\ h[p].pc = "fetching"
    /\ h[p].kind = "refresh"
    /\ h[p].upstream # "failed"
    /\ h' = [h EXCEPT ![p].upstream = "failed",
                      ![p].sent = @ \cup
                          {[kind |-> "repos", target |-> h[p].username,
                            file |-> None, n |-> 2,
                            auth |-> ApiAuth(h[p].isOwner, h[p].accessToken)]}]
    /\ UNCHANGED <<kv, lastRead, nextRid, now, puts, files>>

\* the aggregation endpoint answered non-2xx, or fetch / response.json()
\* threw: the catch block answers 500
FetchFail(p) ==
    /\ lastRead = NoRead
    /\ h[p].pc = "fetching"
    /\ h[p].kind = "refresh"
    /\ h' = [h EXCEPT ![p].pc = "done", ![p].status = 500,
                      ![p].upstream = "failed"]
    /\ UNCHANGED <<kv, lastRead, nextRid, now, puts, files>>

\* what one probe of processRepository can come back with
ProbeOutcomes == {"ok", "notOk", "throws", "undecodable"}

\* variant: a probe that throws rejects processRepository and the refresh
ProbeAnswerThrowAborts(p, i, outcome) ==
    LET hp == h[p]
        r == hp.repos[i]
        fileName == WranglerFiles[r.cand]
        auth == ProbeAuth(hp.isOwner, hp.accessToken)
        last == r.cand = Len(WranglerFiles)
    IN  /\ lastRead = NoRead
        /\ hp.pc = "probing"
        /\ hp.kind = "refresh"
        /\ r.cand # 0
        /\ outcome \in {"ok", "undecodable"} => FileReadable(r, fileName, auth)
        /\ h' = IF outcome = "throws"
                THEN [h EXCEPT ![p].pc = "done", ![p].status = 500]
                ELSE IF outcome = "ok"
                THEN [h EXCEPT ![p].repos[i] =
                        [r EXCEPT !.isWorker = TRUE, !.file = fileName,
                                  !.wranglerConfig = ParseWranglerConfig(
                                      FileContent(r, fileName), fileName),
                                  !.domains = ExtractDomains(
                                      ParseWranglerConfig(
                                          FileContent(r, fileName), fileName)),
                                  !.cand = 0]]
                ELSE IF last
                THEN [h EXCEPT ![p].repos[i].cand = 0]
                ELSE [h EXCEPT ![p].repos[i].cand = r.cand + 1,
                               ![p].sent = @ \cup
                                   {ProbeRequest(hp, r, r.cand + 1)}]
        /\ UNCHANGED <<kv, lastRead, nextRid, now, puts, files>>

\* one `await fetch(fileUrl)` of processRepository(repositories[i]) settles;
\* the loop then breaks (200 and decodable) or moves on to the next candidate
\* and awaits its fetch, or ends after the last candidate
ProbeAnswer(p, i, outcome) ==
    LET hp == h[p]
        r == hp.repos[i]
        fileName == WranglerFiles[r.cand]
        auth == ProbeAuth(hp.isOwner, hp.accessToken)
        last == r.cand = Len(WranglerFiles)
    IN  /\ lastRead = NoRead
        /\ hp.pc = "probing"
        /\ hp.kind = "refresh"
        /\ r.cand # 0
        /\ outcome \in {"ok", "undecodable"} => FileReadable(r, fileName, auth)
        /\ h' = IF outcome = "ok"
                THEN [h EXCEPT ![p].repos[i] =
                        [r EXCEPT !.isWorker = TRUE, !.file = fileName,
                                  !.wranglerConfig = ParseWranglerConfig(
                                      FileContent(r, fileName), fileName),
                                  !.domains = ExtractDomains(
                                      ParseWranglerConfig(
                                          FileContent(r, fileName), fileName)),
                                  !.cand = 0]]
                ELSE IF last
                THEN [h EXCEPT ![p].repos[i].cand = 0]
                ELSE [h EXCEPT ![p].repos[i].cand = r.cand + 1,
                               ![p].sent = @ \cup
                                   {ProbeRequest(hp, r, r.cand + 1)}]
        /\ UNCHANGED <<kv, lastRead, nextRid, now, puts, files>>

\* `repositories.filter(repo => repo.isWorker)` and its complement
WorkerRepos(repositories) == SelectSeq(repositories, LAMBDA repo : repo.isWorker)
OtherRepos(repositories) == SelectSeq(repositories, LAMBDA repo : ~repo.isWorker)

Reverse(seq) == [i \in 1..Len(seq) |-> seq[Len(seq) + 1 - i]]

\* variant: the other repositories are listed last first
GenerateHtmlOthersReversed(username, repositories, currentUser, clock) ==
    [format |-> "html", username |-> username, repositories |-> repositories,
     workers |-> WorkerRepos(repositories),
     others |-> Reverse(OtherRepos(repositories)),
     links |-> [i \in 1..Len(repositories) |-> CardLinks(repositories[i])],
     headerAction |-> IF currentUser = None THEN "login" ELSE "logout",
     cache |-> clock]

\* generateDashboard(data, 'html'): what the markup depends on; workers and
\* others are the sections 'Cloudflare Workers' and 'Other Repositories'
GenerateHtml(username, repositories, currentUser, clock) ==
    [format |-> "html", username |-> username, repositories |-> repositories,
     workers |-> WorkerRepos(repositories),
     others |-> OtherRepos(repositories),
     links |-> [i \in 1..Len(repositories) |-> CardLinks(repositories[i])],
     headerAction |-> IF currentUser = None THEN "login" ELSE "logout",
     cache |-> clock]

\* variant: every repository is listed in the workers section
GenerateMarkdownOneGroup(username, repositories) ==
    [format |-> "md", username |-> username, repositories |-> repositories,
     workers |-> repositories, others |-> << >>,
     links |-> [i \in 1..Len(repositories) |->
                  MarkdownLinks(repositories[i])],
     headerAction |-> "n/a", cache |-> -1]

\* generateMarkdownDashboard(data): what the markdown depends on
GenerateMarkdown(username, repositories) ==
    [format |-> "md", username |-> username, repositories |-> repositories,
     workers |-> WorkerRepos(repositories),
     others |-> OtherRepos(repositories),
     links |-> [i \in 1..Len(repositories) |->
                  MarkdownLinks(repositories[i])],
     headerAction |-> "n/a", cache |-> -1]

CachePut(key, content, username, tier, format) ==
    [key |-> key, content |-> content,
     username |-> username, tier |-> tier, format |-> format]

\* the public pair: Promise.all of two puts
PublicPuts(username, html, markdown) ==
    {CachePut(PublicCacheKey(username) \o ":html", html,
              username, "public", "html"),
     CachePut(PublicCacheKey(username) \o ":md", markdown,
              username, "public", "md")}

\* variant: only the markup of the private pair is put
PrivatePutsHtmlOnly(username, html, markdown) ==
    {CachePut(PrivateCacheKey(username) \o ":html", html,
              username, "private", "html")}

\* the private pair: Promise.all of two puts
PrivatePuts(username, html, markdown) ==
    {CachePut(PrivateCacheKey(username) \o ":html", html,
              username, "private", "html"),
     CachePut(PrivateCacheKey(username) \o ":md", markdown,
              username, "private", "md")}

\* variant: the private pair is put only for an owner with an access token
WritesPrivateWithToken(isOwner, accessToken) == isOwner /\ accessToken # None

\* `if (isOwner)` in front of the private pair
WritesPrivate(isOwner, accessToken) == isOwner

\* Promise.all over processRepository resolved: both formats are rendered
\* (Date.now() returns clock, not less than its previous value) and the two
\* public puts are issued
Render(p, clock) ==
    LET hp == h[p]
        html == GenerateHtml(hp.username, hp.repos, hp.currentUser, clock)
        markdown == GenerateMarkdown(hp.username, hp.repos)
    IN  /\ lastRead = NoRead
        /\ hp.pc = "probing"
        /\ hp.kind = "refresh"
        /\ \A i \in 1..Len(hp.repos) : hp.repos[i].cand = 0
        /\ clock \in {now, now + 1} \ {0}
        /\ clock <= MaxClock
        /\ now' = clock
        /\ h' = [h EXCEPT ![p].pc = "putPublic",
                          ![p].html = html, ![p].md = markdown,
                          ![p].pending =
                              PublicPuts(hp.username, html, markdown)]
        /\ UNCHANGED <<kv, lastRead, nextRid, puts, files>>

\* one KV put resolves (index.ts gives its puts no expirationTtl)
PutOk(p, put) ==
    LET entry == [content |-> put.content, ttl |-> 0,
                  tag |-> [rid |-> h[p].rid, username |-> put.username,
                           tier |-> put.tier, format |-> put.format,
                           by |-> [login |-> h[p].currentUser,
                                   token |-> h[p].accessToken]]]
    IN  /\ lastRead = NoRead
        /\ put \in h[p].pending
        /\ h[p].kind = "refresh"
        /\ kv' = KvPut(kv, put.key, entry)
        /\ puts' = KvPut(puts, <<put.username, put.tier, put.format>>, entry)
        /\ h' = [h EXCEPT ![p].pending = @ \ {put},
                          ![p].wrote = @ \cup {put.key}]
        /\ UNCHANGED <<lastRead, nextRid, now, files>>

\* one KV put rejects: Promise.all rejects at once and the catch block
\* answers 500, whatever its sibling put does
PutFail(p, put) ==
    /\ lastRead = NoRead
    /\ put \in h[p].pending
    /\ h[p].kind = "refresh"
    /\ h' = [h EXCEPT ![p].pending = @ \ {put},
                      ![p].pc = "done",
                      ![p].status = IF h[p].pc = "done" THEN @ ELSE 500]
    /\ UNCHANGED <<kv, lastRead, nextRid, now, puts, files>>

\* both public puts resolved
PublicDone(p) ==
    LET hp == h[p]
    IN  /\ lastRead = NoRead
        /\ hp.pc = "putPublic"
        /\ hp.kind = "refresh"
        /\ hp.pending = {}
        /\ h' = IF WritesPrivate(hp.isOwner, hp.accessToken)
                THEN [h EXCEPT ![p].pc = "putPrivate",
                               ![p].pending =
                                   PrivatePuts(hp.username, hp.html, hp.md)]
                ELSE [h EXCEPT ![p].pc = "done", ![p].status = 302]
        /\ UNCHANGED <<kv, lastRead, nextRid, now, puts, files>>

\* both private puts resolved
PrivateDone(p) ==
    /\ lastRead = NoRead
    /\ h[p].pc = "putPrivate"
    /\ h[p].kind = "refresh"
    /\ h[p].pending = {}
    /\ h' = [h EXCEPT ![p].pc = "done", ![p].status = 302]
    /\ UNCHANGED <<kv, lastRead, nextRid, now, puts, files>>

Next ==
    \/ ReturnDashboard
    \/ \E request \in ReadRequests : FetchDashboard(request)
    \/ \E p \in Procs, v \in Viewers, u \in Usernames : StartRefresh(p, v, u)
    \/ \E p \in Procs : FetchOk(p)
    \/ \E p \in Procs : FetchFail(p)
    \/ \E p \in Procs, i \in 1..2, o \in ProbeOutcomes :
            i <= Len(h[p].repos) /\ ProbeAnswer(p, i, o)
    \/ \E p \in Procs, c \in 1..MaxClock : Render(p, c)
    \/ \E p \in Procs : \E put \in h[p].pending : PutOk(p, put)
    \/ \E p \in Procs : \E put \in h[p].pending : PutFail(p, put)
    \/ \E p \in Procs : PublicDone(p)
    \/ \E p \in Procs : PrivateDone(p)

Spec == Init /\ [][Next]_vars

----------------------------------------------------------------------------
(* Progress of a refresh.  The aggregation request and the KV puts settle  *)
(* and the handler runs on after each await; nothing makes a config probe  *)
(* answer, and fetch(fileUrl, { headers }) is given no timeout              *)

NextRefresh ==
    \/ \E p \in Procs, v \in Viewers, u \in Usernames : StartRefresh(p, v, u)
    \/ \E p \in Procs : FetchOk(p)
    \/ \E p \in Procs : FetchFail(p)
    \/ \E p \in Procs, i \in 1..2, o \in ProbeOutcomes :
            i <= Len(h[p].repos) /\ ProbeAnswer(p, i, o)
    \/ \E p \in Procs, c \in 1..MaxClock : Render(p, c)
    \/ \E p \in Procs : \E put \in h[p].pending : PutOk(p, put)
    \/ \E p \in Procs : \E put \in h[p].pending : PutFail(p, put)
    \/ \E p \in Procs : PublicDone(p)
    \/ \E p \in Procs : PrivateDone(p)

Settles(p) ==
    /\ WF_vars(FetchOk(p) \/ FetchFail(p))
    /\ WF_vars(\E c \in 1..MaxClock : Render(p, c))
    /\ WF_vars(\E put \in h[p].pending : PutOk(p, put) \/ PutFail(p, put))
    /\ WF_vars(PublicDone(p))
    /\ WF_vars(PrivateDone(p))

SpecLive == Init /\ [][NextRefresh]_vars /\ \A p \in Procs : Settles(p)

----------------------------------------------------------------------------
(* Config detection over varying files: svc holds a wrangler.toml and a    *)
(* wrangler.json drawn from the sets below, and nobody logged in refreshes *)
(* al                                                                       *)

RoutePatterns ==
    {<<"svc.example.com">>, <<"svc.example.com", "/", "*">>,
     <<"api.example.com", "/", "v1">>}

\* a wrangler.json with one pattern, as the route object or as a routes list
JsonSingle(pattern, form) ==
    JsonFile([name |-> None, main |-> None,
              routes |-> IF form = "routes" THEN <<[pattern |-> pattern]>>
                         ELSE << >>,
              route |-> IF form = "route" THEN <<[pattern |-> pattern]>>
                        ELSE << >>])

\* a minimal wrangler.toml with one pattern and a wrangler.json with the
\* same pattern
RoundTripFiles ==
    {[fileName \in DOMAIN SvcFiles |->
         IF fileName = "wrangler.toml"
         THEN TomlFile(<<TomlAssign("pattern", pattern)>>)
         ELSE IF fileName = "wrangler.json" THEN JsonSingle(pattern, form)
         ELSE MalformedFile] :
     pattern \in RoutePatterns, form \in {"route", "routes"}}

\* lines of a wrangler.toml: top-level assignments, a comment, a table
\* header, a key meant for a table, a boolean
TomlLines ==
    {TomlAssign("name", <<"svc">>),
     TomlAssign("main", <<"src/index.ts">>),
     TomlAssign("pattern", <<"svc.example.com">>),
     <<"#", " ">> \o TomlAssign("pattern", <<"old.example.com">>),
     <<"[env.staging]">>,
     TomlAssign("name", <<"svc-staging">>),
     <<"workers_dev", " ", "=", " ", "true">>}

TomlTexts == UNION {[1..n -> TomlLines] : n \in 1..MaxLines}

TomlVariantFiles ==
    {[fileName \in DOMAIN SvcFiles |->
         IF fileName = "wrangler.toml" THEN TomlFile(lines)
         ELSE SvcFiles[fileName]] : lines \in TomlTexts}

InitConfig ==
    /\ kv = << >>
    /\ h = [p \in Procs |-> Idle]
    /\ lastRead = NoRead
    /\ nextRid = 1
    /\ now = 0
    /\ puts = << >>
    /\ files \in RoundTripFiles \cup TomlVariantFiles

NextConfig ==
    \/ \E p \in Procs :
            StartRefresh(p, [login |-> None, token |-> None], "al")
    \/ \E p \in Procs : FetchOk(p)
    \/ \E p \in Procs, o \in {"ok", "notOk"} :
            1 <= Len(h[p].repos) /\ ProbeAnswer(p, 1, o)
    \/ \E p \in Procs, c \in 1..MaxClock : Render(p, c)
    \/ \E p \in Procs : \E put \in h[p].pending : PutOk(p, put)
    \/ \E p \in Procs : PublicDone(p)

SpecConfig == InitConfig /\ [][NextConfig]_vars

----------------------------------------------------------------------------
(* Concurrent refreshes of one username: the worker runs MaxPair            *)
(* invocations of handleRefresh for al at the same time, for nobody logged  *)
(* in and for al with the access token                                      *)

Pair == 1..MaxPair

PairViewers ==
    {[login |-> None, token |-> None],
     [login |-> "al", token |-> TokenOf("al")]}

InitPair ==
    /\ kv = << >>
    /\ h = [p \in Pair |-> Idle]
    /\ lastRead = NoRead
    /\ nextRid = 1
    /\ now = 0
    /\ puts = << >>
    /\ files = SvcFiles

NextPair ==
    \/ \E p \in Pair, v \in PairViewers : StartRefresh(p, v, "al")
    \/ \E p \in Pair : FetchOk(p)
    \/ \E p \in Pair : FetchFail(p)
    \/ \E p \in Pair, i \in 1..2, o \in ProbeOutcomes :
            i <= Len(h[p].repos) /\ ProbeAnswer(p, i, o)
    \/ \E p \in Pair, c \in 1..MaxClock : Render(p, c)
    \/ \E p \in Pair : \E put \in h[p].pending : PutOk(p, put)
    \/ \E p \in Pair : \E put \in h[p].pending : PutFail(p, put)
    \/ \E p \in Pair : PublicDone(p)
    \/ \E p \in Pair : PrivateDone(p)

SpecPair == InitPair /\ [][NextPair]_vars

----------------------------------------------------------------------------
(* src/unnamed/part_001: the read handler generates on a miss, the refresh  *)
(* handler runs generateAndCacheDashboard once per format                   *)

\* expirationTtl of the put, in seconds; 0 stands for a put without one
ExpirationTtl == 3600

\* getPreferredFormat
GetPreferredFormat(accept) ==
    IF accept \in {"text/markdown", "text/plain"} THEN "md" ELSE "html"

\* cacheKey of handleUserDashboard and of generateAndCacheDashboard
CacheKey001(username, isPrivate, format) ==
    "dashboard:" \o username \o ":"
        \o (IF isPrivate THEN "private" ELSE "public") \o ":" \o format

\* endpoint of the aggregation request
Endpoint001(username, isPrivate) ==
    IF isPrivate THEN "/stars/" \o username \o "/private"
    ELSE "/stars/" \o username

\* cache.forgithub.com/stars/{owner}[/private]: the private endpoint answers
\* only to the owner's key
StarsReadable(username, isPrivate, auth) ==
    ~isPrivate \/ auth = TokenOf(username)

StarsData(username, isPrivate) ==
    IF isPrivate THEN RepoList(username)
    ELSE SelectSeq(RepoList(username), LAMBDA r : ~r.private)

\* generateHTMLDashboard / generateMarkdownDashboard: what the content
\* depends on
GenerateContent001(username, data, isPrivate, format) ==
    [format |-> format, username |-> username, repositories |-> data,
     headerAction |-> IF format = "html"
                      THEN (IF isPrivate THEN "logout" ELSE "login")
                      ELSE (IF isPrivate THEN "private" ELSE "public"),
     cache |-> -1]

\* generateAndCacheDashboard up to `await fetch(...)`
NewTask == [pc |-> "fetching", status |-> 0, content |-> Absent]

Request001(username, isPrivate, accessToken, format) ==
    [kind |-> "stars", target |-> Endpoint001(username, isPrivate),
     file |-> None, n |-> 1, auth |-> accessToken, format |-> format]

\* handleUserDashboard: a hit is answered from the cache, a miss calls
\* generateAndCacheDashboard for the requested format
HandleUserDashboard001(p, viewer, username, extension, accept) ==
    LET isPrivate == IsOwner(viewer.login, username)
        format == IF extension # None THEN extension
                  ELSE GetPreferredFormat(accept)
        cacheKey == CacheKey001(username, isPrivate, format)
        cached == KvGet(cacheKey)
    IN  /\ lastRead = NoRead
        /\ IF cached # Absent
           THEN /\ p = 1
                /\ lastRead' =
                     [username |-> username, currentUser |-> viewer.login,
                      isOwner |-> isPrivate, format |-> format,
                      key |-> cacheKey, hit |-> TRUE, body |-> cached,
                      contentType |-> IF format = "md" THEN "text/markdown"
                                      ELSE "text/html",
                      status |-> 200]
                /\ UNCHANGED <<h, nextRid>>
           ELSE /\ FirstFree(p)
                /\ nextRid <= MaxRid
                /\ h' = [h EXCEPT ![p] =
                          [Idle EXCEPT !.pc = "running",
                              !.kind = "dashboard", !.rid = nextRid,
                              !.username = username,
                              !.currentUser = viewer.login,
                              !.accessToken = viewer.token,
                              !.isOwner = isPrivate,
                              !.before = Contents(kv),
                              !.tasks = (format :> NewTask),
                              !.sent = {Request001(username, isPrivate,
                                                   viewer.token, format)}]]
                /\ nextRid' = nextRid + 1
                /\ UNCHANGED lastRead
        /\ UNCHANGED <<kv, now, puts, files>>

\* fetch: /^\/([^\/]+)(?:\.(html|md))?$/ is greedy as the pattern of
\* index.ts is
FetchDashboard001(p, viewer, path, accept) ==
    LET userMatch == UserMatch(path)
    IN  /\ userMatch.matched
        /\ HandleUserDashboard001(p, viewer, userMatch.username,
                                  userMatch.format, accept)

\* handleRefresh: both generateAndCacheDashboard calls run up to their fetch
HandleRefresh001(p, viewer, username) ==
    LET isPrivate == IsOwner(viewer.login, username)
    IN  /\ lastRead = NoRead
        /\ FirstFree(p)
        /\ nextRid <= MaxRid
        /\ h' = [h EXCEPT ![p] =
                  [Idle EXCEPT !.pc = "running", !.kind = "refresh001",
                      !.rid = nextRid, !.username = username,
                      !.currentUser = viewer.login,
                      !.accessToken = viewer.token,
                      !.isOwner = isPrivate,
                      !.before = Contents(kv),
                      !.tasks = [f \in Formats |-> NewTask],
                      !.sent = {Request001(username, isPrivate,
                                           viewer.token, f) : f \in Formats}]]
        /\ nextRid' = nextRid + 1
        /\ UNCHANGED <<kv, lastRead, now, puts, files>>

Kinds001 == {"dashboard", "refresh001"}

\* the aggregation endpoint answered 2xx: the content is generated and the
\* put is issued
GenFetchOk001(p, f) ==
    LET hp == h[p]
        data == StarsData(hp.username, hp.isOwner)
    IN  /\ lastRead = NoRead
        /\ hp.kind \in Kinds001
        /\ f \in DOMAIN hp.tasks
        /\ hp.tasks[f].pc = "fetching"
        /\ StarsReadable(hp.username, hp.isOwner, hp.accessToken)
        /\ h' = [h EXCEPT ![p].tasks[f] =
                    [pc |-> "putting", status |-> 0,
                     content |-> GenerateContent001(hp.username, data,
                                                    hp.isOwner, f)]]
        /\ UNCHANGED <<kv, lastRead, nextRid, now, puts, files>>

\* the aggregation endpoint answered non-2xx or the request threw: the catch
\* block of generateAndCacheDashboard answers 500
GenFetchFail001(p, f) ==
    /\ lastRead = NoRead
    /\ h[p].kind \in Kinds001
    /\ f \in DOMAIN h[p].tasks
    /\ h[p].tasks[f].pc = "fetching"
    /\ h' = [h EXCEPT ![p].tasks[f] =
                [pc |-> "done", status |-> 500, content |-> Absent]]
    /\ UNCHANGED <<kv, lastRead, nextRid, now, puts, files>>

\* the put of generateAndCacheDashboard resolves
GenPutOk001(p, f) ==
    LET hp == h[p]
        isPrivate == hp.isOwner
        key == CacheKey001(hp.username, isPrivate, f)
        entry == [content |-> hp.tasks[f].content, ttl |-> ExpirationTtl,
                  tag |-> [rid |-> hp.rid, username |-> hp.username,
                           tier |-> IF isPrivate THEN "private" ELSE "public",
                           format |-> f,
                           by |-> [login |-> hp.currentUser,
                                   token |-> hp.accessToken]]]
    IN  /\ lastRead = NoRead
        /\ hp.kind \in Kinds001
        /\ f \in DOMAIN hp.tasks
        /\ hp.tasks[f].pc = "putting"
        /\ kv' = KvPut(kv, key, entry)
        /\ puts' = KvPut(puts, <<entry.tag.username, entry.tag.tier, f>>,
                         entry)
        /\ h' = [h EXCEPT ![p].tasks[f].pc = "done",
                          ![p].tasks[f].status = 200,
                          ![p].wrote = @ \cup {key}]
        /\ UNCHANGED <<lastRead, nextRid, now, files>>

\* the put of generateAndCacheDashboard rejects: the catch block answers 500
GenPutFail001(p, f) ==
    /\ lastRead = NoRead
    /\ h[p].kind \in Kinds001
    /\ f \in DOMAIN h[p].tasks
    /\ h[p].tasks[f].pc = "putting"
    /\ h' = [h EXCEPT ![p].tasks[f] =
                [pc |-> "done", status |-> 500, content |-> Absent]]
    /\ UNCHANGED <<kv, lastRead, nextRid, now, puts, files>>

\* every generateAndCacheDashboard call has returned: handleUserDashboard
\* returns the response of its call, handleRefresh answers 'Dashboard
\* refreshed' whatever the two calls returned
Respond001(p) ==
    LET hp == h[p]
    IN  /\ lastRead = NoRead
        /\ hp.kind \in Kinds001
        /\ hp.pc = "running"
        /\ \A f \in DOMAIN hp.tasks : hp.tasks[f].pc = "done"
        /\ h' = [h EXCEPT ![p].pc = "done",
                          ![p].status =
                              IF hp.kind = "refresh001" THEN 200
                              ELSE hp.tasks[CHOOSE f \in DOMAIN hp.tasks :
                                                TRUE].status]
        /\ UNCHANGED <<kv, lastRead, nextRid, now, puts, files>>

\* an entry put with expirationTtl outlives its time to live
Expire001(key) ==
    /\ lastRead = NoRead
    /\ key \in DOMAIN kv
    /\ kv[key].ttl > 0
    /\ kv' = [k \in (DOMAIN kv) \ {key} |-> kv[k]]
    /\ UNCHANGED <<h, lastRead, nextRid, now, puts, files>>

Next001 ==
    \/ ReturnDashboard
    \/ \E p \in Procs, v \in Viewers, path \in ReadPaths, a \in Accepts :
            FetchDashboard001(p, v, path, a)
    \/ \E p \in Procs, v \in Viewers, u \in Usernames :
            HandleRefresh001(p, v, u)
    \/ \E p \in Procs, f \in Formats : GenFetchOk001(p, f)
    \/ \E p \in Procs, f \in Formats : GenFetchFail001(p, f)
    \/ \E p \in Procs, f \in Formats : GenPutOk001(p, f)
    \/ \E p \in Procs, f \in Formats : GenPutFail001(p, f)
    \/ \E p \in Procs : Respond001(p)
    \/ \E key \in DOMAIN kv : Expire001(key)

Spec001 == Init /\ [][Next001]_vars

----------------------------------------------------------------------------
(* Refreshes over the usernames the refresh route accepts: any run of      *)
(* characters without "/" in front of "/refresh", a ":" or a "." included  *)

\* url.pathname of a refresh, as the sequence of its pieces
RefreshPaths ==
    {<<"/", "al", "/", "refresh">>,
     <<"/", "bo", "/", "refresh">>,
     <<"/", "al:private", "/", "refresh">>,
     <<"/", "al:public:html", "/", "refresh">>,
     <<"/", "al", ".md", "/", "refresh">>}

\* path.match(/^\/([^\/]+)\/refresh$/)
RefreshMatch(path) ==
    LET n == Len(path)
    IN  IF /\ n >= 4
           /\ path[1] = "/"
           /\ \A i \in 2..(n - 2) : path[i] # "/"
           /\ path[n - 1] = "/"
           /\ path[n] = "refresh"
        THEN [matched |-> TRUE, username |-> Join(SubSeq(path, 2, n - 2))]
        ELSE [matched |-> FALSE, username |-> None]

\* fetch: a path the dashboard route does not match and the refresh route
\* matches goes to handleRefresh
FetchRefresh(p, viewer, path) ==
    LET refreshMatch == RefreshMatch(path)
    IN  /\ ~UserMatch(path).matched
        /\ refreshMatch.matched
        /\ StartRefresh(p, viewer, refreshMatch.username)

\* nobody logged in, and al with the access token
NameViewers == {v \in Viewers : v.login = None \/ v.token = TokenOf("al")}

NextNames ==
    \/ \E p \in Procs, v \in NameViewers, path \in RefreshPaths :
            FetchRefresh(p, v, path)
    \/ \E p \in Procs : FetchOk(p)
    \/ \E p \in Procs : FetchFail(p)
    \/ \E p \in Procs, i \in 1..2, o \in ProbeOutcomes :
            i <= Len(h[p].repos) /\ ProbeAnswer(p, i, o)
    \/ \E p \in Procs, c \in 1..MaxClock : Render(p, c)
    \/ \E p \in Procs : \E put \in h[p].pending : PutOk(p, put)
    \/ \E p \in Procs : \E put \in h[p].pending : PutFail(p, put)
    \/ \E p \in Procs : PublicDone(p)
    \/ \E p \in Procs : PrivateDone(p)

SpecNames == Init /\ [][NextNames]_vars

----------------------------------------------------------------------------
(* src/unnamed/part_000: the read handler answers a miss with a loading    *)
(* placeholder, the refresh handler puts its four payloads one after the   *)
(* other                                                                    *)

\* path.match(/^\/([^\/]+)(\.html|\.md)?$/): the second group is handed on
\* with its dot
UserMatch000(path) ==
    LET splits == UserMatchSplits(path)
        k == CHOOSE j \in splits : \A i \in splits : i <= j
    IN  IF splits = {}
        THEN [matched |-> FALSE, username |-> None, extension |-> None]
        ELSE [matched |-> TRUE,
              username |-> Join(SubSeq(path, 2, k + 1)),
              extension |-> IF k + 1 = Len(path) THEN None ELSE path[k + 2]]

\* the requests of dashboard reads of part_000: the Accept header may be
\* missing
ReadRequests000 ==
    {ReadRequest(None, <<"/", "al">>, "text/html"),
     ReadRequest(None, <<"/", "al">>, ""),
     ReadRequest("al", <<"/", "al">>, "text/html"),
     ReadRequest("al", <<"/", "al">>, "text/markdown"),
     ReadRequest("bo", <<"/", "al">>, "text/html"),
     ReadRequest("bo", <<"/", "al">>, "text/markdown"),
     ReadRequest(None, <<"/", "al", ".md">>, "text/html")}

\* `acceptHeader.includes(type)` for a header that names no or one type
AcceptIncludes(acceptHeader, type) == acceptHeader = type

\* wantsMarkdown of handleDashboard
WantsMarkdown(extension, acceptHeader) ==
    \/ extension = ".md"
    \/ /\ extension = None
       /\ \/ AcceptIncludes(acceptHeader, "text/markdown")
          \/ ~AcceptIncludes(acceptHeader, "text/html")

\* variant: every read looks under the private tier
PrivacyAlwaysPrivate(isOwner) == "private"

\* privacy of handleDashboard
Privacy000(isOwner) == IF isOwner THEN "private" ELSE "public"

CacheKey000(username, privacy, format) ==
    "dashboard:" \o username \o ":" \o privacy \o ":" \o format

\* generateDashboard(username, loggedUsername, data): what the two outputs
\* depend on; autoRefresh is the script that calls refreshDashboard()
GenerateDashboard000(username, loggedUsername, data) ==
    LET hasData == data.cache > 0
    IN  [html |-> [format |-> "html", username |-> username,
                   repositories |-> data.repos,
                   headerAction |-> IF loggedUsername # None THEN "logout"
                                    ELSE "login",
                   cache |-> IF hasData THEN data.cache ELSE -1,
                   hasData |-> hasData, autoRefresh |-> ~hasData],
         markdown |-> [format |-> "md", username |-> username,
                       repositories |-> data.repos,
                       headerAction |-> "n/a", cache |-> -1,
                       hasData |-> hasData, autoRefresh |-> FALSE]]

\* handleDashboard: one KV get, then the cached content or the placeholder
HandleDashboard000(request, username, extension) ==
    LET currentUser == request.currentUser
        isOwner == IsOwner(currentUser, username)
        wantsMarkdown == WantsMarkdown(extension, request.accept)
        privacy == Privacy000(isOwner)
        format == IF wantsMarkdown THEN "md" ELSE "html"
        cacheKey == CacheKey000(username, privacy, format)
        cached == KvGet(cacheKey)
        placeholderData == [cache |-> 0, username |-> username,
                            repos |-> << >>, isPrivate |-> isOwner]
        generated == GenerateDashboard000(username, currentUser,
                                          placeholderData)
        content == IF wantsMarkdown THEN generated.markdown
                   ELSE generated.html
    IN  /\ lastRead = NoRead
        /\ lastRead' =
             [path |-> request.path,
              username |-> username, currentUser |-> currentUser,
              isOwner |-> isOwner, format |-> format,
              key |-> cacheKey, privacy |-> privacy,
              hit |-> cached # Absent,
              body |-> IF cached # Absent THEN cached
                       ELSE [content |-> content, ttl |-> 0,
                             tag |-> [rid |-> 0, username |-> username,
                                      tier |-> privacy, format |-> format,
                                      by |-> [login |-> currentUser,
                                              token |-> None]]],
              contentType |-> IF wantsMarkdown THEN "text/markdown"
                              ELSE "text/html",
              cacheControl |-> IF cached # Absent
                               THEN "public, max-age=300" ELSE None,
              status |-> 200]
        /\ UNCHANGED <<kv, h, nextRid, now, puts, files>>

FetchDashboard000(request) ==
    LET match == UserMatch000(request.path)
    IN  /\ match.matched
        /\ HandleDashboard000(request, match.username, match.extension)

\* `isOwner ? getAccessToken(request) : undefined`
AccessToken000(isOwner, token) == IF isOwner THEN token ELSE None

\* handleRefresh up to `await fetch(apiUrl.toString())`
HandleRefresh000(p, viewer, username) ==
    LET isOwner == IsOwner(viewer.login, username)
        accessToken == AccessToken000(isOwner, viewer.token)
    IN  /\ lastRead = NoRead
        /\ FirstFree(p)
        /\ nextRid <= MaxRid
        /\ h' = [h EXCEPT ![p] =
                  [Idle EXCEPT !.pc = "fetching", !.kind = "refresh000",
                      !.rid = nextRid, !.username = username,
                      !.currentUser = viewer.login,
                      !.accessToken = accessToken,
                      !.isOwner = isOwner,
                      !.before = Contents(kv),
                      !.sent = {[kind |-> "repos", target |-> username,
                                 file |-> None, n |-> 1,
                                 auth |-> accessToken]}]]
        /\ nextRid' = nextRid + 1
        /\ UNCHANGED <<kv, lastRead, now, puts, files>>

\* variant: the public versions of the owner's refresh keep every repository
PublicReposUnfiltered(allRepos) == allRepos

\* `allRepos.filter(repo => !repo.private)`
PublicRepos000(allRepos) == SelectSeq(allRepos, LAMBDA repo : ~repo.private)

\* the repositories of the public versions: filtered after the private
\* versions of the owner with an access token, the list as it came otherwise
PublicData000(isOwner, accessToken, allRepos) ==
    IF isOwner /\ accessToken # None THEN PublicRepos000(allRepos)
    ELSE allRepos

\* the aggregation endpoint answered 2xx: the first versions are generated
\* (Date.now() returns clock) and their html is put
RefreshFetchOk000(p, clock) ==
    LET hp == h[p]
        allRepos == Upstream(hp.username, hp.accessToken)
        private == hp.isOwner /\ hp.accessToken # None
        data == [cache |-> clock, username |-> hp.username,
                 repos |-> IF private THEN allRepos
                           ELSE PublicData000(hp.isOwner, hp.accessToken,
                                              allRepos),
                 isPrivate |-> private]
        formats == GenerateDashboard000(hp.username,
                       IF private THEN hp.currentUser ELSE None, data)
    IN  /\ lastRead = NoRead
        /\ hp.kind = "refresh000"
        /\ hp.pc = "fetching"
        /\ clock \in {now, now + 1} \ {0}
        /\ clock <= MaxClock
        /\ now' = clock
        /\ h' = [h EXCEPT ![p].pc = IF private THEN "putPrivateHtml"
                                    ELSE "putPublicHtml",
                          ![p].repos = allRepos, ![p].upstream = "ok",
                          ![p].html = formats.html,
                          ![p].md = formats.markdown]
        /\ UNCHANGED <<kv, lastRead, nextRid, puts, files>>

\* the aggregation endpoint answered non-2xx or the request threw: the catch
\* block answers 500
RefreshFetchFail000(p) ==
    /\ lastRead = NoRead
    /\ h[p].kind = "refresh000"
    /\ h[p].pc = "fetching"
    /\ h' = [h EXCEPT ![p].pc = "done", ![p].status = 500,
                      ![p].upstream = "failed"]
    /\ UNCHANGED <<kv, lastRead, nextRid, now, puts, files>>

Stages000 ==
    {"putPrivateHtml", "putPrivateMd", "putPublicHtml", "putPublicMd"}

StageTier(pc) ==
    IF pc \in {"putPrivateHtml", "putPrivateMd"} THEN "private" ELSE "public"

StageFormat(pc) ==
    IF pc \in {"putPrivateHtml", "putPublicHtml"} THEN "html" ELSE "md"

\* one `await env.FLAREDREAM_KV.put(...)` resolves and the handler runs on to
\* the next put, generating the public versions after the private markdown,
\* or to the response
RefreshPutOk000(p, clock) ==
    LET hp == h[p]
        tier == StageTier(hp.pc)
        format == StageFormat(hp.pc)
        key == CacheKey000(hp.username, tier, format)
        entry == [content |-> IF format = "html" THEN hp.html ELSE hp.md,
                  ttl |-> ExpirationTtl,
                  tag |-> [rid |-> hp.rid, username |-> hp.username,
                           tier |-> tier, format |-> format,
                           by |-> [login |-> hp.currentUser,
                                   token |-> hp.accessToken]]]
        publicData == [cache |-> clock, username |-> hp.username,
                       repos |-> PublicData000(hp.isOwner, hp.accessToken,
                                               hp.repos),
                       isPrivate |-> FALSE]
        publicFormats == GenerateDashboard000(hp.username, None, publicData)
    IN  /\ lastRead = NoRead
        /\ hp.kind = "refresh000"
        /\ hp.pc \in Stages000
        /\ kv' = KvPut(kv, key, entry)
        /\ puts' = KvPut(puts, <<hp.username, tier, format>>, entry)
        /\ IF hp.pc = "putPrivateMd"
           THEN /\ clock \in {now, now + 1} \ {0}
                /\ clock <= MaxClock
                /\ now' = clock
                /\ h' = [h EXCEPT ![p].pc = "putPublicHtml",
                                  ![p].html = publicFormats.html,
                                  ![p].md = publicFormats.markdown,
                                  ![p].wrote = @ \cup {key}]
           ELSE /\ clock = now
                /\ now' = now
                /\ h' = [h EXCEPT
                          ![p].pc = IF hp.pc = "putPublicMd" THEN "done"
                                    ELSE IF hp.pc = "putPrivateHtml"
                                    THEN "putPrivateMd" ELSE "putPublicMd",
                          ![p].status = IF hp.pc = "putPublicMd" THEN 200
                                        ELSE 0,
                          ![p].wrote = @ \cup {key}]
        /\ UNCHANGED <<lastRead, nextRid, files>>

\* a put rejects: the catch block answers 500
RefreshPutFail000(p) ==
    /\ lastRead = NoRead
    /\ h[p].kind = "refresh000"
    /\ h[p].pc \in Stages000
    /\ h' = [h EXCEPT ![p].pc = "done", ![p].status = 500]
    /\ UNCHANGED <<kv, lastRead, nextRid, now, puts, files>>

Next000 ==
    \/ ReturnDashboard
    \/ \E request \in ReadRequests000 : FetchDashboard000(request)
    \/ \E p \in Procs, v \in Viewers, u \in Usernames :
            HandleRefresh000(p, v, u)
    \/ \E p \in Procs, c \in 0..MaxClock : RefreshFetchOk000(p, c)
    \/ \E p \in Procs : RefreshFetchFail000(p)
    \/ \E p \in Procs, c \in 0..MaxClock : RefreshPutOk000(p, c)
    \/ \E p \in Procs : RefreshPutFail000(p)
    \/ \E key \in DOMAIN kv : Expire001(key)

Spec000 == Init /\ [][Next000]_vars

----------------------------------------------------------------------------
(* Properties of src/src/index.ts *)

\* the key format of the cache: dashboard:{username}:{tier}:{format}
Key(username, tier, format) ==
    "dashboard:" \o username \o ":" \o tier \o ":" \o format

Refreshes == {p \in Procs : h[p].kind = "refresh"}

RequesterOwns(p) ==
    h[p].currentUser # None /\ h[p].currentUser = h[p].username

HasPrivateRecord(content) ==
    \E i \in 1..Len(content.repositories) : content.repositories[i].private

\* C1: the payloads stored under the public keys of a username are rendered
\* only from repository records with private = false
C1_PublicPayloadsHoldNoPrivateRecord ==
    \A u \in Usernames, f \in Formats :
        Key(u, "public", f) \in DOMAIN kv
            => ~HasPrivateRecord(kv[Key(u, "public", f)].content)

\* C2: a refresh whose requester is not the owner of the target username, or
\* is the owner but holds no access token, writes no private entry
C2_NoPrivateWriteWithoutOwnerCredential ==
    \A p \in Refreshes :
        ~(RequesterOwns(p) /\ h[p].accessToken # None)
            => \A f \in Formats :
                  /\ Key(h[p].username, "private", f) \notin h[p].wrote
                  /\ \A put \in h[p].pending :
                        put.key # Key(h[p].username, "private", f)

\* C3: a dashboard read returns a cached payload only if it is the latest
\* entry put for exactly its (username, tier, format); while nothing was put
\* for the private tier the owner's read is answered with the redirect to
\* refresh; a non-owner's read returns no entry put for a private tier
C3_ReadReturnsEntryOfExactKey ==
    lastRead # NoRead =>
        LET u == lastRead.username
            tier == IF lastRead.currentUser = u THEN "private" ELSE "public"
            triple == <<u, tier, lastRead.format>>
        IN  /\ lastRead.hit =>
                /\ triple \in DOMAIN puts
                /\ lastRead.body = puts[triple]
                /\ lastRead.body.tag.username = u
                /\ lastRead.body.tag.tier = tier
                /\ lastRead.body.tag.format = lastRead.format
            /\ triple \notin DOMAIN puts =>
                /\ ~lastRead.hit
                /\ lastRead.body = [redirect |-> "/" \o u \o "/refresh"]
            /\ lastRead.currentUser # u /\ lastRead.hit =>
                lastRead.body.tag.tier # "private"

\* the owner reads the private key while only the public key was written
W3_OwnerMissesWhileOnlyPublicWritten ==
    /\ lastRead # NoRead
    /\ lastRead.currentUser = "al"
    /\ lastRead.username = "al"
    /\ lastRead.format = "html"
    /\ ~lastRead.hit
    /\ <<"al", "public", "html">> \in DOMAIN puts
    /\ <<"al", "private", "html">> \notin DOMAIN puts

\* C4: every outbound request of a refresh (the aggregation request and every
\* config probe) carries an access token only if the requester's login equals
\* the target username
C4_TokenOnlySentForOwner ==
    \A p \in Refreshes :
        \A r \in h[p].sent : r.auth # None => RequesterOwns(p)

\* C5: the read handler and the refresh handler use the private tier if and
\* only if a viewer is logged in and its login equals the target username;
\* in every other case they use the public tier
C5_PrivateTierIffViewerIsTarget ==
    /\ lastRead # NoRead =>
          LET own == lastRead.currentUser # None
                        /\ lastRead.currentUser = lastRead.username
          IN  lastRead.key =
                Key(lastRead.username,
                    IF own THEN "private" ELSE "public", lastRead.format)
    /\ \A p \in Refreshes :
          LET privateKeys ==
                  {Key(h[p].username, "private", f) : f \in Formats}
              publicKeys ==
                  {Key(h[p].username, "public", f) : f \in Formats}
              used == h[p].wrote \cup {put.key : put \in h[p].pending}
          IN  /\ used \subseteq privateKeys \cup publicKeys
              /\ used \cap privateKeys # {} => RequesterOwns(p)
              /\ h[p].status = 302 =>
                    /\ publicKeys \subseteq h[p].wrote
                    /\ RequesterOwns(p) => privateKeys \subseteq h[p].wrote

\* the owner's refresh has written the private pair and the owner's read is
\* served from it
W5_OwnerRefreshedAndReadPrivate ==
    /\ lastRead # NoRead
    /\ lastRead.currentUser = "al"
    /\ lastRead.username = "al"
    /\ lastRead.hit
    /\ \E p \in Refreshes :
          /\ h[p].status = 302
          /\ h[p].currentUser = "al"
          /\ h[p].username = "al"

\* C6: whenever a refresh has answered 500, every cache entry holds the value
\* it held before that refresh started
C6_FailedRefreshLeavesCacheAsBefore ==
    \A p \in Refreshes :
        h[p].status = 500 => Contents(kv) = h[p].before

\* C7: when the aggregation request fails, the refresh writes nothing to the
\* cache, sends no config probe, does not repeat the request and answers 500
C7_UpstreamFailureAbortsRefresh ==
    \A p \in Refreshes :
        h[p].upstream = "failed" =>
            /\ h[p].pc = "done"
            /\ h[p].status = 500
            /\ h[p].wrote = {}
            /\ h[p].pending = {}
            /\ Cardinality(h[p].sent) = 1
            /\ \A r \in h[p].sent : r.kind = "repos"
            /\ \A k \in DOMAIN kv : kv[k].tag.rid # h[p].rid

\* the aggregation request of a refresh failed while the cache held entries
W7_UpstreamFailedOverFilledCache ==
    \E p \in Refreshes :
        /\ h[p].upstream = "failed"
        /\ h[p].status = 500
        /\ DOMAIN kv # {}

\* C8: with no refresh in flight, the html and md entries of each tier of a
\* username were written by the same refresh
C8_PairWrittenBySameRefresh ==
    (\A p \in Procs : Free(p)) =>
        \A u \in Usernames, t \in Tiers :
            LET kh == Key(u, t, "html")
                km == Key(u, t, "md")
            IN  /\ kh \in DOMAIN kv <=> km \in DOMAIN kv
                /\ kh \in DOMAIN kv => kv[kh].tag.rid = kv[km].tag.rid

\* C9: a dashboard read changes no cache entry and makes no outbound request,
\* on a hit and on a miss alike; the cache changes only in a step in which a
\* refresh has a put resolved
C9_ReadChangesNothing ==
    [][/\ (lastRead = NoRead /\ lastRead' # NoRead)
            => kv' = kv /\ h' = h /\ puts' = puts
       /\ kv' # kv
            => \E p \in Procs :
                  /\ h[p].kind = "refresh"
                  /\ h'[p].wrote # h[p].wrote]_vars

\* a read missed while the cache held other entries
W9_ReadMissedOverFilledCache ==
    /\ lastRead # NoRead
    /\ ~lastRead.hit
    /\ DOMAIN kv # {}

\* the names of the records a payload was rendered from
RecordNames(repositories) ==
    {repositories[i].name : i \in 1..Len(repositories)}

\* C11: once a refresh by the owner holding a credential has answered 302, it
\* has written all four entries (public/private x html/md) of the username,
\* and the private payloads it wrote are rendered from every record the
\* aggregation endpoint returned, the private ones included
C11_OwnerRefreshWritesAllFour ==
    \A p \in Refreshes :
        (h[p].status = 302 /\ RequesterOwns(p) /\ h[p].accessToken # None) =>
            LET u == h[p].username
                returned == Upstream(u, h[p].accessToken)
            IN  /\ \A t \in Tiers, f \in Formats : Key(u, t, f) \in h[p].wrote
                /\ \A f \in Formats :
                      LET k == Key(u, "private", f)
                      IN  (k \in DOMAIN kv /\ kv[k].tag.rid = h[p].rid) =>
                            /\ Len(kv[k].content.repositories) = Len(returned)
                            /\ RecordNames(kv[k].content.repositories)
                                  = RecordNames(returned)

\* the owner's refresh answered 302 and its private markup, which lists a
\* private repository, is in the cache
W11_OwnerRefreshDoneWithPrivateRecord ==
    \E p \in Refreshes :
        /\ h[p].status = 302
        /\ RequesterOwns(p)
        /\ h[p].accessToken # None
        /\ Key(h[p].username, "private", "html") \in DOMAIN kv
        /\ kv[Key(h[p].username, "private", "html")].tag.rid = h[p].rid
        /\ HasPrivateRecord(kv[Key(h[p].username, "private", "html")].content)

\* C13: a read of /{username}.md is answered from the md entry of {username}
\* and a read of /{username}.html from its html entry, whatever the Accept
\* header: the extension is not part of the username of the cache key, and it
\* selects the format
C13_ExtensionSelectsFormat ==
    (/\ lastRead # NoRead
     /\ Len(lastRead.path) = 3
     /\ lastRead.path[3] \in Extensions) =>
        LET u == lastRead.path[2]
            f == SliceDot(lastRead.path[3])
            tier == IF lastRead.currentUser = u THEN "private" ELSE "public"
        IN  /\ lastRead.username = u
            /\ lastRead.format = f
            /\ lastRead.key = Key(u, tier, f)
            /\ lastRead.hit <=> Key(u, tier, f) \in DOMAIN kv

\* C14: when a refresh answers 302 and every key it wrote held, when it
\* started, the entry of one earlier refresh by the same requester whose
\* processed repository list (upstream list and probe results) was the same,
\* the payloads it wrote are identical to those earlier ones
C14_RepeatedRefreshKeepsPayloads ==
    \A p \in Refreshes :
        LET prior == h[p].prior
            keys == h[p].wrote
            requester == [login |-> h[p].currentUser,
                          token |-> h[p].accessToken]
        IN  (/\ h[p].status = 302
             /\ keys \subseteq DOMAIN prior
             /\ \E r \in 1..MaxRid : \A k \in keys : prior[k].tag.rid = r
             /\ \A k \in keys :
                    /\ prior[k].tag.by = requester
                    /\ prior[k].content.repositories = h[p].repos) =>
                \A k \in keys :
                    (k \in DOMAIN kv /\ kv[k].tag.rid = h[p].rid)
                        => kv[k].content = prior[k].content

\* C15: generateDashboard is deterministic: two payloads of the same format
\* rendered for the same username, the same viewer and the same processed
\* repository list are identical, whenever they were rendered
C15_RendererIsDeterministic ==
    \A k1, k2 \in DOMAIN kv :
        (/\ kv[k1].tag.format = kv[k2].tag.format
         /\ kv[k1].tag.username = kv[k2].tag.username
         /\ kv[k1].tag.by.login = kv[k2].tag.by.login
         /\ kv[k1].content.repositories = kv[k2].content.repositories)
            => kv[k1].content = kv[k2].content

\* the route patterns the detected configuration file of a repository
\* declares
DeclaredPatterns(repo) ==
    LET config == ParseWranglerConfig(FileContent(repo, repo.file), repo.file)
        declared == config.routes \o config.route
    IN  [i \in 1..Len(declared) |-> Join(declared[i].pattern)]

\* C16: in every cached markup, a repository with a detected configuration
\* file is in the deployable group and has exactly one route link per route
\* pattern the file declares (one link, for svc.example.com/*, for the
\* wrangler.toml of svc)
C16_OneRouteLinkPerDeclaredPattern ==
    \A k \in DOMAIN kv :
        kv[k].tag.format = "html" =>
            \A i \in 1..Len(kv[k].content.repositories) :
                LET repo == kv[k].content.repositories[i]
                IN  repo.file # None =>
                        /\ repo.isWorker
                        /\ DomainLinks(repo) =
                              [j \in 1..Len(DeclaredPatterns(repo)) |->
                                  "https://" \o DeclaredPatterns(repo)[j]]

\* C17: every cache entry written by handleRefresh carries a time to live
\* (only such an entry can be found absent later without another write)
C17_EveryEntryCarriesTtl ==
    \A k \in DOMAIN kv : kv[k].ttl > 0

C20_ConcurrentRefreshesLeaveWholePairs ==
    \A p, q \in DOMAIN h :
        (/\ p # q
         /\ h[p].kind = "refresh" /\ h[q].kind = "refresh"
         /\ h[p].username = h[q].username
         /\ h[p].status = 302 /\ h[q].status = 302
         /\ h[p].pending = {} /\ h[q].pending = {}) =>
            \A t \in Tiers :
                LET kh == Key(h[p].username, t, "html")
                    km == Key(h[p].username, t, "md")
                IN  (kh \in DOMAIN kv /\ km \in DOMAIN kv)
                        => kv[kh].tag.rid = kv[km].tag.rid

\* the config probes of a refresh that were sent and are not yet answered:
\* one per repository whose candidate loop is still running
ProbesInFlight(p) ==
    IF h[p].pc = "probing"
    THEN Cardinality({i \in 1..Len(h[p].repos) : h[p].repos[i].cand # 0})
    ELSE 0

\* the longest list the aggregation endpoint returns
LongestList == Len(RepoList("al"))

\* C21: the number of config probes a refresh has in flight at the same time
\* stays under a cap that does not grow with the repository list: it is
\* below the length of the longest list
C21_ProbesInFlightBelowListLength ==
    \A p \in Refreshes : ProbesInFlight(p) < LongestList

\* C22: every refresh eventually answers, with a success or a failure
\* status, also when a config probe is never answered
C22_RefreshEventuallyAnswers ==
    \A p \in Procs :
        (h[p].kind = "refresh" /\ h[p].status = 0) ~> (h[p].status # 0)

\* the files a refresh has requested of a repository
Asked(p, repoName) ==
    {r.file : r \in {q \in h[p].sent :
                        q.kind = "contents" /\ q.target = repoName}}

C24_ProbeOutcomeNeverFailsRefresh ==
    [][\A p \in Procs :
          /\ (h[p].kind = "refresh" /\ h[p].status = 500) =>
                (h[p].upstream = "failed" \/ h[p].html # Absent)
          /\ (h[p].kind = "refresh" /\ h[p].pc = "probing" /\ h'[p] # h[p]) =>
                /\ h'[p].status = 0
                /\ \/ /\ h'[p].pc = "probing"
                      /\ \E i \in 1..Len(h[p].repos) :
                            /\ h'[p].repos[i] # h[p].repos[i]
                            /\ h'[p].repos[i].cand
                                  \in {0, h[p].repos[i].cand + 1}
                   \/ /\ h'[p].pc = "putPublic"
                      /\ {put.key : put \in h'[p].pending} =
                            {Key(h[p].username, "public", f) : f \in Formats}]_vars

\* every probe of svc failed although its files exist, and the refresh wrote
\* the public pair and answered 302
W24_AllProbesFailedRefreshSucceeded ==
    \E p \in Refreshes :
        /\ h[p].status = 302
        /\ Len(h[p].repos) >= 1
        /\ h[p].repos[1].name = "svc"
        /\ h[p].repos[1].file = None
        /\ Asked(p, "svc") =
              {"wrangler.toml", "wrangler.json", "wrangler.jsonc"}
        /\ \A f \in Formats : Key(h[p].username, "public", f) \in h[p].wrote

\* C25: a candidate file whose content is malformed for its format counts
\* as a miss: a repository is marked as a worker only because of a file
\* that was parsed
C25_MalformedFileIsAMiss ==
    \A p \in Refreshes :
        \A i \in 1..Len(h[p].repos) :
            LET r == h[p].repos[i]
            IN  r.isWorker =>
                    /\ r.file # None
                    /\ FileContent(r, r.file).wellFormed

Range(seq) == {seq[i] : i \in 1..Len(seq)}

\* C26: in every cached payload, html or md, a repository that has none of
\* the candidate files carries no config (isWorker, file and domains unset)
\* and is listed in the other group, never in the deployable group
C26_NoFileMeansOtherGroup ==
    \A k \in DOMAIN kv :
        \A repo \in Range(kv[k].content.repositories) :
            FilesOf(repo) = {} =>
                /\ ~repo.isWorker
                /\ repo.file = None
                /\ repo.domains = << >>
                /\ repo \in Range(kv[k].content.others)
                /\ repo \notin Range(kv[k].content.workers)

\* vault, which has no candidate file, is in the other group of a cached
\* markup and of a cached markdown
W26_VaultInOtherGroupOfBothFormats ==
    \E kh, km \in DOMAIN kv :
        /\ kv[kh].tag.format = "html"
        /\ kv[km].tag.format = "md"
        /\ \E repo \in Range(kv[kh].content.others) : repo.name = "vault"
        /\ \E repo \in Range(kv[km].content.others) : repo.name = "vault"

\* the list the aggregation endpoint returned to the refresh that wrote an
\* entry
ReturnedFor(entry) ==
    Upstream(entry.tag.username,
             ApiAuth(IsOwner(entry.tag.by.login, entry.tag.username),
                     entry.tag.by.token))

\* C27: in every cached payload the repositories are those of the upstream
\* list, each is in exactly one of the two groups, and the repositories of
\* a group follow one another as they do in the upstream list
C27_GroupsPartitionAndKeepOrder ==
    \A k \in DOMAIN kv :
        LET c == kv[k].content
            returned == ReturnedFor(kv[k])
            at(name) == CHOOSE j \in 1..Len(returned) : returned[j].name = name
            times(group, repo) ==
                Cardinality({i \in 1..Len(group) : group[i] = repo})
            ordered(group) ==
                \A a, b \in 1..Len(group) :
                    a < b => at(group[a].name) < at(group[b].name)
        IN  /\ Len(c.repositories) = Len(returned)
            /\ \A i \in 1..Len(returned) :
                  /\ c.repositories[i].name = returned[i].name
                  /\ times(c.workers, c.repositories[i])
                        + times(c.others, c.repositories[i]) = 1
            /\ Len(c.workers) + Len(c.others) = Len(returned)
            /\ ordered(c.workers)
            /\ ordered(c.others)

\* a cached markup lists svc and vault, in this order, in the other group
W27_TwoRepositoriesInOneGroup ==
    \E k \in DOMAIN kv :
        /\ kv[k].tag.format = "html"
        /\ Len(kv[k].content.others) = 2
        /\ kv[k].content.others[1].name = "svc"
        /\ kv[k].content.others[2].name = "vault"

\* the processed records with a detected file, of the refreshes in flight
\* and of the cached payloads
Detected ==
    {r \in UNION ({Range(h[p].repos) : p \in Refreshes}
                  \cup {Range(kv[k].content.repositories) : k \in DOMAIN kv}) :
        r.file # None}

\* the route patterns of a config, of routes and of route
PatternSet(config) ==
    {Join(route.pattern) : route \in Range(config.routes \o config.route)}

IsTableHeader(line) ==
    Trim(line) # << >> /\ Head(Trim(line)) \in {"[env.staging]", "[[routes]]"}

IsStringAssign(line, key) ==
    \E value \in {<<"svc">>, <<"svc-staging">>, <<"src/index.ts">>,
                   <<"svc.example.com">>, <<"svc.example.com", "/", "*">>,
                   <<"old.example.com">>} :
        Trim(line) = TomlAssign(key, value)

\* the value of the last top-level `key = "value"` line: one in front of
\* the first table header
TopLevelScalar(lines, key) ==
    LET headers == {i \in 1..Len(lines) : IsTableHeader(lines[i])}
        top == IF headers = {} THEN Len(lines) ELSE Min(headers) - 1
        at == {i \in 1..top : IsStringAssign(lines[i], key)}
    IN  IF at = {} THEN None
        ELSE LET line == Trim(lines[CHOOSE i \in at : \A j \in at : j <= i])
             IN  Join(SubSeq(line, 6, Len(line) - 1))

\* one route per `pattern = "value"` line, in file order
PatternRoutes(lines) ==
    LET kept == SelectSeq(lines, LAMBDA line : IsStringAssign(line, "pattern"))
    IN  [i \in 1..Len(kept) |->
            [pattern |-> SubSeq(Trim(kept[i]), 6, Len(Trim(kept[i])) - 1)]]

\* C30: the config parsed from a wrangler.toml has the name and the main of
\* the top-level `name = "value"` / `main = "value"` lines and one route per
\* `pattern = "value"` line, in file order; comments, table headers, the
\* keys of a table, other keys and booleans change nothing
C30_TomlTakesTopLevelKeysAndPatternLines ==
    \A r \in Detected :
        r.file = "wrangler.toml" =>
            LET lines == files["wrangler.toml"].lines
            IN  r.wranglerConfig =
                    [name |-> TopLevelScalar(lines, "name"),
                     main |-> TopLevelScalar(lines, "main"),
                     routes |-> PatternRoutes(lines),
                     route |-> << >>]

\* C31: for every repository of a refresh, the markdown rendered by the
\* refresh carries the same set of link targets as the html it rendered
C31_MarkdownCarriesTheLinksOfHtml ==
    \A p \in Refreshes :
        h[p].html # Absent =>
            \A i \in 1..Len(h[p].repos) :
                Range(h[p].md.links[i]) = Range(h[p].html.links[i])

\* the reads that follow the refresh of slot p: the slot keeps the finished
\* refresh until the next refresh starts
ReadAfterRefreshBy(p) ==
    /\ h[p].pc = "done"
    /\ h[p].status = 302
    /\ lastRead # NoRead
    /\ lastRead.currentUser = h[p].currentUser
    /\ lastRead.username = h[p].username

\* C33: once a viewer's refresh of a username has answered 302, a dashboard
\* read of that username by the same viewer, in html or in markdown, is
\* answered from the cache and not with the page that redirects to the refresh
C33_ReadAfterRefreshIsServedFromCache ==
    \A p \in Refreshes :
        ReadAfterRefreshBy(p) =>
            /\ lastRead.hit
            /\ lastRead.body = kv[lastRead.key]
            /\ lastRead.body # MissResponse(lastRead.username).body

\* al, logged in without access token, refreshed al and then read al's
\* dashboard in markdown from the cache
W33_OwnerReadsMarkdownAfterRefresh ==
    \E p \in Refreshes :
        /\ ReadAfterRefreshBy(p)
        /\ h[p].currentUser = "al" /\ h[p].accessToken = None
        /\ lastRead.format = "md"
        /\ lastRead.hit

\* a payload without the timestamp of its markup
ApartFromTimestamp(content) == [content EXCEPT !.cache = 0]

PublicRecords(content) ==
    SelectSeq(content.repositories, LAMBDA repo : ~repo.private)

\* C36: when a refresh overwrites a public entry and the public records,
\* with what was detected in their files, are those of the payload it
\* replaces, the new payload equals the replaced one apart from the
\* timestamp, whoever triggered the two refreshes
C36_PublicPayloadIndependentOfRequester ==
    \A p \in Refreshes :
        \A k \in h[p].wrote \cap DOMAIN h[p].prior :
            (/\ kv[k].tag.tier = "public"
             /\ kv[k].tag.rid = h[p].rid
             /\ PublicRecords(kv[k].content)
                    = PublicRecords(h[p].prior[k].content))
                => ApartFromTimestamp(kv[k].content)
                       = ApartFromTimestamp(h[p].prior[k].content)

\* the usernames of RefreshPaths and the four keys of a username
RefreshNames == {RefreshMatch(path).username : path \in RefreshPaths}

KeysOf(username) == {Key(username, t, f) : t \in Tiers, f \in Formats}

\* C37: a refresh of username U puts under keys of U only, and every entry
\* of another username that was in the cache when the refresh started is
\* still there, with the same value unless another refresh has put it
\* since, also for usernames with a ":" or a "."
C37_RefreshWritesOnlyKeysOfItsUsername ==
    \A p \in Refreshes :
        /\ h[p].wrote \subseteq KeysOf(h[p].username)
        /\ \A other \in RefreshNames \ {h[p].username} :
              \A k \in KeysOf(other) \cap DOMAIN h[p].prior :
                  /\ k \in DOMAIN kv
                  /\ kv[k] = h[p].prior[k] \/ kv[k].tag.rid # h[p].rid

\* al's four entries were in the cache when the refresh of al:private
\* started: it answered 302 after writing dashboard:al:private:public:html
\* and :md, and al's private html is as before
W37_RefreshOfColonNameBesideOwnerEntries ==
    \E p \in Refreshes :
        /\ h[p].username = "al:private"
        /\ h[p].pc = "done" /\ h[p].status = 302
        /\ KeysOf("al") \subseteq DOMAIN h[p].prior
        /\ h[p].wrote = {"dashboard:al:private:public:html",
                         "dashboard:al:private:public:md"}
        /\ kv["dashboard:al:private:html"]
              = h[p].prior["dashboard:al:private:html"]

----------------------------------------------------------------------------
(* Properties of src/unnamed/part_001 *)

\* C10: the dashboard read handler of part_001 never calls the aggregation
\* endpoint and never writes a cache entry, on a hit and on a miss alike
C10_ReadHandlerNeitherFetchesNorWrites ==
    \A p \in Procs :
        h[p].kind = "dashboard" => h[p].sent = {} /\ h[p].wrote = {}

\* C12: every refresh of part_001 whose generateAndCacheDashboard calls all
\* succeeded has written the public html and md entries of the target
\* username, also when the requester is the owner of that username
C12_RefreshAlwaysWritesPublicPair ==
    \A p \in Procs :
        (/\ h[p].kind = "refresh001"
         /\ h[p].status = 200
         /\ \A f \in DOMAIN h[p].tasks : h[p].tasks[f].status = 200) =>
            \A f \in Formats : Key(h[p].username, "public", f) \in h[p].wrote

\* C19: the refresh route of part_001 answers a failure status whenever one
\* of its two generateAndCacheDashboard calls failed, and a success status
\* only when both entries were written
C19_RefreshReportsFailure ==
    \A p \in Procs :
        (h[p].kind = "refresh001" /\ h[p].status # 0) =>
            /\ (\E f \in Formats : h[p].tasks[f].status = 500)
                  => h[p].status >= 400
            /\ h[p].status \in 200..299 => Cardinality(h[p].wrote) = 2

\* C28: one refresh of part_001 requests the aggregation endpoint once, and
\* its html and md entries are rendered from that one response
C28_RefreshFetchesOnce ==
    \A p \in Procs :
        h[p].kind = "refresh001" =>
            Cardinality({r \in h[p].sent : r.kind = "stars"}) <= 1

----------------------------------------------------------------------------
(* Properties of src/unnamed/part_000 *)

Refreshes000 == {p \in Procs : h[p].kind = "refresh000"}

\* the entries under public keys that refresh p has put and that are still
\* the ones in the cache
PublicWrites000(p) ==
    {k \in h[p].wrote \cap DOMAIN kv :
        kv[k].tag.tier = "public" /\ kv[k].tag.rid = h[p].rid}

OwnerReadAfterRefresh000(p) ==
    /\ h[p].pc = "done"
    /\ h[p].status = 200
    /\ h[p].currentUser = h[p].username
    /\ lastRead # NoRead
    /\ lastRead.currentUser = h[p].currentUser
    /\ lastRead.username = h[p].username

\* C34: once the refresh of a username requested by its owner has answered
\* 200, the owner's read of the dashboard is answered from the cache, unless
\* the entry the refresh wrote has expired since, whether or not the owner's
\* requests carry an access token
C34_OwnerReadAfterRefreshIsServedFromCache ==
    \A p \in Refreshes000 :
        OwnerReadAfterRefresh000(p) =>
            lastRead.hit \/ lastRead.key \in h[p].wrote

\* C35: a response of handleDashboard whose body was read from a key of
\* the private tier does not carry Cache-Control: public
C35_PrivateBodyNeverPubliclyCacheable ==
    (lastRead # NoRead /\ lastRead.hit /\ lastRead.privacy = "private")
        => lastRead.cacheControl # "public, max-age=300"

\* C38: with an upstream that gives private records only to the owner's
\* access token, no response of handleDashboard to a viewer who is not the
\* owner of the username, nobody logged in included, has a body rendered
\* from a private record of that username
C38_NoPrivateRecordServedToNonOwner ==
    (lastRead # NoRead /\ lastRead.currentUser # lastRead.username) =>
        \A i \in 1..Len(lastRead.body.content.repositories) :
            ~lastRead.body.content.repositories[i].private

\* al's private entries, which list vault, are in the cache, and bo reads
\* al's dashboard from the cache without vault
W38_NonOwnerServedPublicBesidePrivateEntries ==
    /\ lastRead # NoRead
    /\ lastRead.currentUser = "bo"
    /\ lastRead.username = "al"
    /\ lastRead.hit
    /\ lastRead.body.content.repositories = <<RepoSvc>>
    /\ "dashboard:al:private:html" \in DOMAIN kv
    /\ kv["dashboard:al:private:html"].content.repositories
          = <<RepoSvc, RepoVault>>

====
